---- MODULE Spec2Model ----
(***************************************************************************)
(* The entity resolution pipeline of Lexicon:                              *)
(*   src/src/utils/phonetics.py            PhoneticUtils                   *)
(*   src/src/models/lsr.py                 LSR, Attestation                *)
(*   src/src/pipelines/entity_resolution.py EntityResolver                 *)
(*                                                                         *)
(* Strings are sequences of code points, each code point a one-element     *)
(* name.  Optional values (int | None, UUID | None) are sequences of       *)
(* length 0 (None) or 1.  Scores are exact rationals over ScoreScale.      *)
(***************************************************************************)
EXTENDS Integers, Sequences, FiniteSets, TLC

VARIABLES auto_merge_threshold, merge_with_flag_threshold, review_threshold,
          weights, lsr_store, form_index, out, merges, now

vars == <<auto_merge_threshold, merge_with_flag_threshold, review_threshold,
          weights, lsr_store, form_index, out, merges, now>>

resolver_config == <<auto_merge_threshold, merge_with_flag_threshold,
                     review_threshold, weights>>

(***************************************************************************)
(* Bounds of the model.                                                    *)
(***************************************************************************)
MaxStore == 2

MaxBatch == 3

MaxMerges == 2

MaxAttestations == 1

MaxLen == 3

None == <<>>

Some(x) == <<x>>

IsNone(o) == Len(o) = 0

\* Python truthiness of an int | None: None and 0 are both falsy.
TruthyInt(o) == Len(o) = 1 /\ o[1] # 0

Max2(a, b) == IF a >= b THEN a ELSE b

Min2(a, b) == IF a <= b THEN a ELSE b

RECURSIVE SetToSeqs(_)
\* every ordering of a finite set: the iteration orders list(set) can produce
SetToSeqs(S) ==
    IF S = {} THEN {<<>>}
    ELSE UNION {{<<x>> \o t : t \in SetToSeqs(S \ {x})} : x \in S}

RECURSIVE Concat(_)
Concat(ss) == IF Len(ss) = 0 THEN <<>> ELSE Head(ss) \o Concat(Tail(ss))

Range(s) == {s[i] : i \in 1..Len(s)}

(***************************************************************************)
(* Code points.  "A", "E", "X" are upper-case letters, "a_acute" the precomposed    *)
(* U+00E1, "acute" the combining mark U+0301, ":" the colon, " " a space.  *)
(***************************************************************************)
\* str.lower() on one code point
lower_char(c) ==
    IF c = "A" THEN "a" ELSE IF c = "E" THEN "e" ELSE IF c = "X" THEN "x" ELSE c

\* str.lower()
lower(s) == [i \in 1..Len(s) |-> lower_char(s[i])]

\* unicodedata.normalize("NFKD", c) for one code point
nfkd_char(c) == IF c = "a_acute" THEN <<"a", "acute">> ELSE <<c>>

\* unicodedata.combining(c) != 0
combining(c) == c = "acute"

strip_diacritics(text) ==
    LET nfkd == Concat([i \in 1..Len(text) |-> nfkd_char(text[i])])
    IN  SelectSeq(nfkd, LAMBDA c : ~combining(c))

RECURSIVE current_row_from_dear(_, _, _, _)
\* mutant: a substitution costs 2
current_row_from_dear(current_row, previous_row, c1, s2) ==
    IF Len(current_row) = Len(s2) + 1 THEN current_row
    ELSE LET k == Len(current_row)
             insertions == previous_row[k + 1] + 1
             deletions == current_row[k] + 1
             substitutions == previous_row[k] + (IF c1 # s2[k] THEN 2 ELSE 0)
         IN  current_row_from_dear(
                 Append(current_row, Min2(Min2(insertions, deletions), substitutions)),
                 previous_row, c1, s2)

RECURSIVE current_row_from(_, _, _, _)
\* the inner loop of levenshtein_distance: extends current_row over s2
current_row_from(current_row, previous_row, c1, s2) ==
    IF Len(current_row) = Len(s2) + 1 THEN current_row
    ELSE LET k == Len(current_row)
             insertions == previous_row[k + 1] + 1
             deletions == current_row[k] + 1
             substitutions == previous_row[k] + (IF c1 # s2[k] THEN 1 ELSE 0)
         IN  current_row_from(
                 Append(current_row, Min2(Min2(insertions, deletions), substitutions)),
                 previous_row, c1, s2)

RECURSIVE levenshtein_rows(_, _, _, _)
\* the outer loop of levenshtein_distance: row i (1-based) from the previous row
levenshtein_rows(previous_row, i, s1, s2) ==
    IF i > Len(s1) THEN previous_row[Len(previous_row)]
    ELSE levenshtein_rows(current_row_from(<<i>>, previous_row, s1[i], s2),
                          i + 1, s1, s2)

levenshtein_ordered(s1, s2) ==
    IF Len(s2) = 0 THEN Len(s1)
    ELSE levenshtein_rows([j \in 1..(Len(s2) + 1) |-> j - 1], 1, s1, s2)

levenshtein_distance(s1, s2) ==
    IF Len(s1) < Len(s2) THEN levenshtein_ordered(s2, s1)
    ELSE levenshtein_ordered(s1, s2)

(***************************************************************************)
(* Units.  A feature score f in [0,1] is the integer f * FeatureScale; a   *)
(* weight w is the integer w * 10; a total score or a threshold t is          *)
(* t * ScoreScale.  FeatureScale is a multiple of 100 (the date divisor)   *)
(* and of every string length and word count of the model, so the          *)
(* divisions below are exact (ExactArithmetic checks it).                  *)
(***************************************************************************)
FeatureScale == 60 * 100

ScoreScale == FeatureScale * 10

Hundredths(n) == n * (ScoreScale \div 100)

\* SimilarityWeights(): 0.3, 0.2, 0.3, 0.1, 0.1
SimilarityWeights ==
    [form_exact |-> 3, form_fuzzy |-> 2, semantic |-> 3,
     date_overlap |-> 1, source_agreement |-> 1]

\* EntityResolver.__init__ defaults: 0.95, 0.85, 0.70
DefaultThresholds ==
    [auto_merge |-> Hundredths(95), merge_with_flag |-> Hundredths(85),
     review |-> Hundredths(70)]

FeatureNames ==
    {"form_exact", "form_fuzzy", "semantic", "date_overlap", "source_agreement"}

\* feature_scores: dict[str, float]; the empty dict is the empty function
NoFeatures == [k \in {} |-> 0]

AUTO_MERGE == "auto_merge"

MERGE_WITH_FLAG == "merge_with_flag"

FLAG_FOR_REVIEW == "flag_for_review"

CREATE_NEW == "create_new"

\* ResolutionResult(action=..., existing_id=None, similarity_score=0.0,
\*                  feature_scores={}, issues=[])
ResolutionResult(action, existing_id, similarity_score, feature_scores, issues) ==
    [action |-> action, existing_id |-> existing_id,
     similarity_score |-> similarity_score, feature_scores |-> feature_scores,
     issues |-> issues]

(***************************************************************************)
(* The records.                                                            *)
(***************************************************************************)
\* confidence values are integers over ConfidenceScale (1.0 = ConfidenceScale)
ConfidenceScale == 12 * 100

\* LSR._normalize
normalize(text) == strip_diacritics(lower(text))

\* LSR(id=..., form_orthographic=..., form_normalized=..., language_code=...)
\* with every other field at its default; auto_normalize_form fills
\* form_normalized when it is empty and form_orthographic is not.
\* malformed: source_databases was later assigned None (the model is not
\* frozen and does not validate assignments).
LSR(id, form_orthographic, form_normalized, language_code) ==
    [id |-> id, version |-> 1, updated_at |-> 0,
     form_orthographic |-> form_orthographic,
     form_normalized |->
         IF Len(form_orthographic) > 0 /\ Len(form_normalized) = 0
         THEN normalize(form_orthographic) ELSE form_normalized,
     language_code |-> language_code,
     date_start |-> None, date_end |-> None,
     date_confidence |-> ConfidenceScale,
     definition_primary |-> <<>>, definitions_alternate |-> <<>>,
     attestations |-> <<>>,
     reconstruction_flag |-> FALSE, confidence_overall |-> ConfidenceScale,
     source_databases |-> <<>>, human_validated |-> FALSE,
     malformed |-> FALSE]

\* Attestation(id=..., lsr_id=..., text_date=...)
Attestation(id, lsr_id, text_date) ==
    [id |-> id, lsr_id |-> lsr_id, text_date |-> text_date]

\* RawLexicalEntry(source_name, form, language, language_code, definitions,
\*                 date_attested)
RawLexicalEntry(source_name, form, language, language_code, definitions, date_attested) ==
    [source_name |-> source_name, form |-> form, language |-> language,
     language_code |-> language_code, definitions |-> definitions,
     date_attested |-> date_attested]

RECURSIVE SumSeq(_)
SumSeq(s) == IF Len(s) = 0 THEN 0 ELSE Head(s) + SumSeq(Tail(s))

\* LSR.update_confidence: the mean of the applicable factors
update_confidence(self) ==
    LET factors ==
            <<self.date_confidence>>
            \o (IF Len(self.attestations) > 0
                THEN <<Min2(ConfidenceScale,
                            Len(self.attestations) * (ConfidenceScale \div 10)
                            + ConfidenceScale \div 2)>>
                ELSE <<(3 * ConfidenceScale) \div 10>>)
            \o (IF self.reconstruction_flag THEN <<(6 * ConfidenceScale) \div 10>> ELSE <<>>)
            \o (IF self.human_validated THEN <<ConfidenceScale>> ELSE <<>>)
    IN  [self EXCEPT !.confidence_overall = SumSeq(factors) \div Len(factors)]

\* mutant: a missing date_start is not taken from the other record
merged_date_start_kept(self, other) ==
    IF ~IsNone(other.date_start)
       /\ ~IsNone(self.date_start) /\ other.date_start[1] < self.date_start[1]
    THEN other.date_start ELSE self.date_start

\* the date-range part of merge_with
merged_date_start(self, other) ==
    IF ~IsNone(other.date_start)
       /\ (IsNone(self.date_start) \/ other.date_start[1] < self.date_start[1])
    THEN other.date_start ELSE self.date_start

merged_date_end(self, other) ==
    IF ~IsNone(other.date_end)
       /\ (IsNone(self.date_end) \/ other.date_end[1] > self.date_end[1])
    THEN other.date_end ELSE self.date_end

\* mutant: the version is left as it is
next_version_same(version) == version

\* `self.version += 1`
next_version(version) == version + 1

\* mutant: every attestation of other is appended
merged_attestations_all(self, other) == self.attestations \o other.attestations

\* the attestation part of merge_with: existing_ids is computed once, before
\* the loop
merged_attestations(self, other) ==
    LET existing_ids == {self.attestations[i].id : i \in 1..Len(self.attestations)}
    IN  self.attestations
            \o SelectSeq(other.attestations, LAMBDA att : att.id \notin existing_ids)

\* the alternate-definition part of merge_with: existing_defs is computed
\* once, before the loop
merged_definitions_alternate(self, other) ==
    LET existing_defs == Range(self.definitions_alternate)
    IN  self.definitions_alternate
            \o SelectSeq(other.definitions_alternate,
                         LAMBDA defn : /\ defn \notin existing_defs
                                       /\ defn # self.definition_primary)

\* mutant: the merge also takes the other record's primary definition
merge_with_primary(self, other, sources, time) ==
    [self EXCEPT !.attestations = merged_attestations(self, other),
                 !.definition_primary = other.definition_primary,
                 !.version = next_version(@)]

\* LSR.merge_with(other); sources is the order list(set(...)) produced and
\* time the value of datetime.now()
merge_with(self, other, sources, time) ==
    update_confidence(
        [self EXCEPT
            !.attestations = merged_attestations(self, other),
            !.date_start = merged_date_start(self, other),
            !.date_end = merged_date_end(self, other),
            !.source_databases = sources,
            !.definitions_alternate = merged_definitions_alternate(self, other),
            !.version = next_version(@),
            !.updated_at = time])

\* the orders list(set(self.source_databases + other.source_databases)) can have
merged_source_orders(self, other) ==
    SetToSeqs(Range(self.source_databases) \cup Range(other.source_databases))

\* LSR.validate_date_range: construction raises when both bounds are given
\* and date_end < date_start
validate_date_range(date_start, date_end) ==
    IsNone(date_end) \/ IsNone(date_start) \/ date_end[1] >= date_start[1]

\* min(dates), max(dates) of a non-empty collection of years
MinYear(dates) == CHOOSE d \in dates : \A e \in dates : d <= e

MaxYear(dates) == CHOOSE d \in dates : \A e \in dates : d >= e

\* LSR._update_dates_from_attestations
update_dates_from_attestations(self) ==
    LET dates == {self.attestations[i].text_date[1] :
                     i \in {j \in 1..Len(self.attestations) :
                               ~IsNone(self.attestations[j].text_date)}}
    IN  IF dates = {} THEN self
        ELSE [self EXCEPT
                 !.date_start = IF IsNone(@) \/ MinYear(dates) < @[1]
                                THEN Some(MinYear(dates)) ELSE @,
                 !.date_end = IF IsNone(@) \/ MaxYear(dates) > @[1]
                              THEN Some(MaxYear(dates)) ELSE @]

\* LSR.add_attestation(attestation): links the attestation to this LSR,
\* appends it and widens the date range
add_attestation(self, attestation) ==
    update_dates_from_attestations(
        [self EXCEPT !.attestations =
                         Append(@, [attestation EXCEPT !.lsr_id = Some(self.id)])])

(***************************************************************************)
(* The form index.                                                         *)
(***************************************************************************)
\* f"{form}:{language_code}"
index_key(form, language_code) == form \o <<":">> \o language_code

\* key.rsplit(":", 1): split at the last colon (every key has one)
rsplit_colon(key) ==
    LET p == CHOOSE i \in 1..Len(key) :
                 key[i] = ":" /\ \A j \in (i + 1)..Len(key) : key[j] # ":"
    IN  <<SubSeq(key, 1, p - 1), SubSeq(key, p + 1, Len(key))>>

RECURSIVE items_order(_)
\* the order store.items() yields the given ids in: the dict was filled in
\* ascending id order
items_order(ids) ==
    IF ids = {} THEN <<>>
    ELSE LET first == CHOOSE i \in ids : \A j \in ids : i <= j
         IN  <<first>> \o items_order(ids \ {first})

\* _rebuild_index: key -> the list of the ids of the stored LSRs with that
\* key
rebuild_index(store) ==
    LET key_of(i) == index_key(store[i].form_normalized, store[i].language_code)
        keys == {key_of(i) : i \in DOMAIN store}
    IN  [k \in keys |-> items_order({i \in DOMAIN store : key_of(i) = k})]

\* entry.language_code or entry.language[:3].lower()
entry_language_code(entry) ==
    IF Len(entry.language_code) > 0 THEN entry.language_code
    ELSE lower(SubSeq(entry.language, 1, Min2(3, Len(entry.language))))

\* _retrieve_candidates: exact key lookup, then the scan of every key of the
\* same language within edit distance 2; the result is a set of ids
retrieve_candidates(index, entry) ==
    LET form_normalized == strip_diacritics(lower(entry.form))
        language_code == entry_language_code(entry)
        exact_key == index_key(form_normalized, language_code)
        exact == IF exact_key \in DOMAIN index THEN Range(index[exact_key]) ELSE {}
        fuzzy == UNION {Range(index[key]) : key \in
                    {k \in DOMAIN index :
                        /\ rsplit_colon(k)[2] = language_code
                        /\ levenshtein_distance(form_normalized, rsplit_colon(k)[1]) <= 2}}
    IN  exact \cup fuzzy

(***************************************************************************)
(* The similarity scorer.                                                  *)
(***************************************************************************)
\* " ".join(definitions)
RECURSIVE join_space(_)
join_space(defs) ==
    IF Len(defs) = 0 THEN <<>>
    ELSE IF Len(defs) = 1 THEN defs[1]
    ELSE defs[1] \o <<" ">> \o join_space(Tail(defs))

\* set(s.split()): the maximal runs of non-space code points
split_words(s) ==
    {SubSeq(s, i, j) : <<i, j>> \in
        {p \in (1..Len(s)) \X (1..Len(s)) :
            /\ p[1] <= p[2]
            /\ \A k \in p[1]..p[2] : s[k] # " "
            /\ (p[1] = 1 \/ s[p[1] - 1] = " ")
            /\ (p[2] = Len(s) \/ s[p[2] + 1] = " ")}}

Abs(x) == IF x < 0 THEN -x ELSE x

form_exact_feature(entry, candidate) ==
    IF strip_diacritics(lower(entry.form)) = candidate.form_normalized
    THEN FeatureScale ELSE 0

form_fuzzy_feature(entry, candidate) ==
    LET entry_normalized == strip_diacritics(lower(entry.form))
        distance == levenshtein_distance(entry_normalized, candidate.form_normalized)
        max_len == Max2(Max2(Len(entry_normalized), Len(candidate.form_normalized)), 1)
    IN  Max2(0, FeatureScale - ((FeatureScale * distance) \div max_len))

\* mutant: no credit when a side has no definition text
semantic_feature_no_neutral(entry, candidate) ==
    IF Len(entry.definitions) > 0 /\ Len(candidate.definition_primary) > 0
    THEN LET entry_words == split_words(lower(join_space(entry.definitions)))
             candidate_words == split_words(lower(candidate.definition_primary))
         IN  IF entry_words # {} /\ candidate_words # {}
             THEN (FeatureScale * Cardinality(entry_words \cap candidate_words))
                      \div Cardinality(entry_words \cup candidate_words)
             ELSE 0
    ELSE 0

semantic_feature(entry, candidate) ==
    IF Len(entry.definitions) > 0 /\ Len(candidate.definition_primary) > 0
    THEN LET entry_words == split_words(lower(join_space(entry.definitions)))
             candidate_words == split_words(lower(candidate.definition_primary))
         IN  IF entry_words # {} /\ candidate_words # {}
             THEN (FeatureScale * Cardinality(entry_words \cap candidate_words))
                      \div Cardinality(entry_words \cup candidate_words)
             ELSE 0
    ELSE FeatureScale \div 2

\* mutant: partial credit without the floor at 0
date_overlap_unfloored(entry, candidate) ==
    IF /\ TruthyInt(entry.date_attested)
       /\ TruthyInt(candidate.date_start)
       /\ TruthyInt(candidate.date_end)
    THEN LET d == entry.date_attested[1]
             s == candidate.date_start[1]
             e == candidate.date_end[1]
         IN  IF s <= d /\ d <= e THEN FeatureScale
             ELSE FeatureScale - ((FeatureScale * Min2(Abs(d - s), Abs(d - e))) \div 100)
    ELSE FeatureScale \div 2

date_overlap_feature(entry, candidate) ==
    IF /\ TruthyInt(entry.date_attested)
       /\ TruthyInt(candidate.date_start)
       /\ TruthyInt(candidate.date_end)
    THEN LET d == entry.date_attested[1]
             s == candidate.date_start[1]
             e == candidate.date_end[1]
         IN  IF s <= d /\ d <= e THEN FeatureScale
             ELSE Max2(0, FeatureScale
                          - ((FeatureScale * Min2(Abs(d - s), Abs(d - e))) \div 100))
    ELSE FeatureScale \div 2

source_agreement_feature(entry, candidate) ==
    IF entry.source_name \in Range(candidate.source_databases)
    THEN FeatureScale ELSE 0

features_of(entry, candidate) ==
    [k \in FeatureNames |->
        CASE k = "form_exact" -> form_exact_feature(entry, candidate)
          [] k = "form_fuzzy" -> form_fuzzy_feature(entry, candidate)
          [] k = "semantic" -> semantic_feature(entry, candidate)
          [] k = "date_overlap" -> date_overlap_feature(entry, candidate)
          [] k = "source_agreement" -> source_agreement_feature(entry, candidate)]

weighted_total(features, w) ==
      features["form_exact"] * w.form_exact
    + features["form_fuzzy"] * w.form_fuzzy
    + features["semantic"] * w.semantic
    + features["date_overlap"] * w.date_overlap
    + features["source_agreement"] * w.source_agreement

\* _calculate_similarity raises (TypeError at the source-agreement test) on a
\* candidate whose source_databases is not a list; otherwise (total, features)
calculate_similarity(entry, candidate, w) ==
    IF candidate.malformed
    THEN [raised |-> TRUE, total |-> 0, features |-> NoFeatures]
    ELSE [raised |-> FALSE,
          total |-> weighted_total(features_of(entry, candidate), w),
          features |-> features_of(entry, candidate)]

(***************************************************************************)
(* EntityResolver.resolve                                                  *)
(***************************************************************************)
\* `if score > best_match[1]`: a later candidate replaces the best so far
replaces_best(score, best_score) == score > best_score

RECURSIVE score_candidates(_, _, _, _, _)
\* the scoring loop over list(candidates) in the iteration order `order`;
\* best_match is (candidate_id, score, features), initially (None, 0.0, {})
score_candidates(order, store, entry, w, best_match) ==
    IF Len(order) = 0 THEN [raised |-> FALSE, best_match |-> best_match]
    ELSE IF Head(order) \notin DOMAIN store
    THEN score_candidates(Tail(order), store, entry, w, best_match)
    ELSE LET sim == calculate_similarity(entry, store[Head(order)], w)
         IN  IF sim.raised THEN [raised |-> TRUE, best_match |-> best_match]
             ELSE IF replaces_best(sim.total, best_match[2])
             THEN score_candidates(Tail(order), store, entry, w,
                                   <<Some(Head(order)), sim.total, sim.features>>)
             ELSE score_candidates(Tail(order), store, entry, w, best_match)

\* mutant: the threshold tests made exclusive
choose_action_strict(score, auto, flag, review) ==
    IF score > auto THEN AUTO_MERGE
    ELSE IF score > flag THEN MERGE_WITH_FLAG
    ELSE IF score > review THEN FLAG_FOR_REVIEW
    ELSE CREATE_NEW

\* step 3 of resolve: the ordered threshold tests on the best score
choose_action(score, auto, flag, review) ==
    IF score >= auto THEN AUTO_MERGE
    ELSE IF score >= flag THEN MERGE_WITH_FLAG
    ELSE IF score >= review THEN FLAG_FOR_REVIEW
    ELSE CREATE_NEW

\* mutant: no early return
no_candidates_never(order) == FALSE

\* `if not candidates`: the early return of resolve
no_candidates(order) == Len(order) = 0

\* mutant: match_id is not cleared for CREATE_NEW
returned_match_id_kept(action, match_id) == match_id

\* the else branch of step 3: `match_id = None` when the action is CREATE_NEW
returned_match_id(action, match_id) ==
    IF action = CREATE_NEW THEN None ELSE match_id

\* resolve(entry) with the candidates iterated in `order`: either the call
\* raises, or it returns a ResolutionResult
resolve(store, entry, order, auto, flag, review, w) ==
    IF no_candidates(order)
    THEN [raised |-> FALSE,
          result |-> ResolutionResult(CREATE_NEW, None, 0, NoFeatures, <<>>)]
    ELSE LET scored == score_candidates(order, store, entry, w, <<None, 0, NoFeatures>>)
             match_id == scored.best_match[1]
             score == scored.best_match[2]
             feature_scores == scored.best_match[3]
             action == choose_action(score, auto, flag, review)
         IN  IF scored.raised
             THEN [raised |-> TRUE,
                   result |-> ResolutionResult(CREATE_NEW, None, 0, NoFeatures, <<>>)]
             ELSE [raised |-> FALSE,
                   result |-> ResolutionResult(
                       action, returned_match_id(action, match_id),
                       score, feature_scores, <<>>)]

\* the outcomes resolve(entry) can have in the current state, one per
\* iteration order of the candidate set
resolve_calls(entry) ==
    {[order |-> order,
      call |-> resolve(lsr_store, entry, order, auto_merge_threshold,
                       merge_with_flag_threshold, review_threshold, weights)] :
        order \in SetToSeqs(retrieve_candidates(form_index, entry))}

\* the except branch of process_batch: ResolutionResult(action=CREATE_NEW,
\* issues=[str(e)])
batch_fallback == ResolutionResult(CREATE_NEW, None, 0, NoFeatures, <<"TypeError">>)

\* what process_batch appends for one entry, given what resolve did
batch_result(call) == IF call.raised THEN batch_fallback ELSE call.result

(***************************************************************************)
(* Operations.  `out` records the last call and what it returned.          *)
(***************************************************************************)
\* `if entry.date_attested:`
date_seeds_bounds(date_attested) == TruthyInt(date_attested)

\* convert_entry_to_lsr(entry): a new LSR (id: the uuid4 it was given) with
\* the entry's form, language, definitions and source; form_normalized is
\* filled by auto_normalize_form
convert_entry_to_lsr(entry, id) ==
    LET lsr == [LSR(id, entry.form, <<>>, entry_language_code(entry)) EXCEPT
                    !.definition_primary =
                        IF Len(entry.definitions) > 0 THEN entry.definitions[1] ELSE <<>>,
                    !.definitions_alternate =
                        IF Len(entry.definitions) > 1 THEN Tail(entry.definitions) ELSE <<>>,
                    !.source_databases = <<entry.source_name>>]
    IN  IF date_seeds_bounds(entry.date_attested)
        THEN [lsr EXCEPT !.date_start = entry.date_attested,
                         !.date_end = entry.date_attested]
        ELSE lsr

\* EntityResolver(auto_merge_threshold, merge_with_flag_threshold,
\*                review_threshold, weights): empty store, empty index
Construct(thresholds, w) ==
    /\ auto_merge_threshold = thresholds.auto_merge
    /\ merge_with_flag_threshold = thresholds.merge_with_flag
    /\ review_threshold = thresholds.review
    /\ weights = w
    /\ lsr_store = <<>>
    /\ form_index = rebuild_index(<<>>)
    /\ out = [op |-> "init"]
    /\ merges = <<>>
    /\ now = 0

\* mutant: the index is not cleared before it is filled
DoSetLsrStore_unclearing(store) ==
    /\ lsr_store' = store
    /\ form_index' =
           [k \in DOMAIN rebuild_index(store) \cup DOMAIN form_index |->
               (IF k \in DOMAIN form_index THEN form_index[k] ELSE <<>>)
               \o (IF k \in DOMAIN rebuild_index(store)
                   THEN rebuild_index(store)[k] ELSE <<>>)]
    /\ out' = [op |-> "set_lsr_store"]
    /\ merges' = [i \in DOMAIN store |-> [n |-> 0, version0 |-> store[i].version]]
    /\ UNCHANGED <<resolver_config, now>>

\* set_lsr_store(store): replaces the store and rebuilds the index
DoSetLsrStore(store) ==
    /\ lsr_store' = store
    /\ form_index' = rebuild_index(store)
    /\ out' = [op |-> "set_lsr_store"]
    /\ merges' = [i \in DOMAIN store |-> [n |-> 0, version0 |-> store[i].version]]
    /\ UNCHANGED <<resolver_config, now>>

\* mutant: resolve touches the record it matched
DoResolve_merging(entry) ==
    \E c \in resolve_calls(entry) :
        /\ out' = [op |-> "resolve", entry |-> entry, order |-> c.order,
                   raised |-> c.call.raised, result |-> c.call.result]
        /\ lsr_store' =
               IF IsNone(c.call.result.existing_id) THEN lsr_store
               ELSE [lsr_store EXCEPT ![c.call.result.existing_id[1]].version =
                                          next_version(@)]
        /\ UNCHANGED <<resolver_config, form_index, merges, now>>

\* resolve(entry): returns a ResolutionResult or raises; reads the store and
\* the index only
DoResolve(entry) ==
    \E c \in resolve_calls(entry) :
        /\ out' = [op |-> "resolve", entry |-> entry, order |-> c.order,
                   raised |-> c.call.raised, result |-> c.call.result]
        /\ UNCHANGED <<resolver_config, lsr_store, form_index, merges, now>>

RECURSIVE batch_calls_abort(_)
\* mutant: the first failing entry ends the batch
batch_calls_abort(entries) ==
    IF Len(entries) = 0 THEN {<<>>}
    ELSE LET first == {c.call : c \in resolve_calls(Head(entries))}
             rest == batch_calls_abort(Tail(entries))
         IN  {IF c.raised THEN <<c>> ELSE <<c>> \o r : c \in first, r \in rest}

RECURSIVE batch_calls(_)
\* the loop of process_batch: one resolve call per entry, in input order
batch_calls(entries) ==
    IF Len(entries) = 0 THEN {<<>>}
    ELSE LET first == {c.call : c \in resolve_calls(Head(entries))}
             rest == batch_calls(Tail(entries))
         IN  {<<c>> \o r : c \in first, r \in rest}

DoProcessBatch(entries) ==
    \E calls \in batch_calls(entries) :
        /\ out' = [op |-> "process_batch", entries |-> entries, calls |-> calls,
                   raised |-> FALSE,
                   results |-> [i \in 1..Len(calls) |-> batch_result(calls[i])]]
        /\ UNCHANGED <<resolver_config, lsr_store, form_index, merges, now>>

\* merge_lsrs(target, source) on two LSRs of the store (the store holds the
\* objects, so the merge shows in the store; the index is not rebuilt);
\* returns the merge log.
\* now is the clock datetime.now() reads: one tick per merge, at most MaxMerges
DoMergeLsrs(target, source) ==
    /\ now < MaxMerges
    /\ ~lsr_store[target].malformed /\ ~lsr_store[source].malformed
    /\ \E sources \in merged_source_orders(lsr_store[target], lsr_store[source]) :
           lsr_store' = [lsr_store EXCEPT ![target] =
                            merge_with(lsr_store[target], lsr_store[source],
                                       sources, now + 1)]
    /\ now' = now + 1
    /\ merges' = [merges EXCEPT ![target].n = @ + 1]
    /\ out' = [op |-> "merge_lsrs", target |-> target, source |-> source,
               target_before |-> lsr_store[target],
               source_before |-> lsr_store[source],
               merge_log |-> [target_id |-> lsr_store[target].id,
                              source_id |-> lsr_store[source].id,
                              merged_fields |-> <<"attestations", "source_databases",
                                                  "definitions">>]]
    /\ UNCHANGED <<resolver_config, form_index>>

\* lsr.add_attestation(attestation) on an LSR of the store, with an
\* Attestation object no other LSR holds
DoAddAttestation(target, attestation) ==
    /\ ~lsr_store[target].malformed
    /\ lsr_store' = [lsr_store EXCEPT ![target] = add_attestation(@, attestation)]
    /\ out' = [op |-> "add_attestation", target |-> target,
               attestation |-> attestation, target_before |-> lsr_store[target]]
    /\ UNCHANGED <<resolver_config, form_index, merges, now>>

\* convert_entry_to_lsr(entry): returns the new LSR, changes nothing
DoConvertEntryToLsr(entry) ==
    /\ out' = [op |-> "convert_entry_to_lsr", entry |-> entry,
               lsr |-> convert_entry_to_lsr(entry, 0)]
    /\ UNCHANGED <<resolver_config, lsr_store, form_index, merges, now>>

\* self._calculate_similarity(entry, candidate) with the configured weights:
\* returns (total, features) or raises
DoCalculateSimilarity(entry, candidate) ==
    /\ out' = [op |-> "calculate_similarity", entry |-> entry,
               candidate |-> candidate,
               call |-> calculate_similarity(entry, candidate, weights)]
    /\ UNCHANGED <<resolver_config, lsr_store, form_index, merges, now>>

\* PhoneticUtils.levenshtein_distance(s1, s2): returns the distance
DoLevenshteinDistance(s1, s2) ==
    /\ out' = [op |-> "levenshtein_distance", s1 |-> s1, s2 |-> s2,
               distance |-> levenshtein_distance(s1, s2)]
    /\ UNCHANGED <<resolver_config, lsr_store, form_index, merges, now>>

(***************************************************************************)
(* Inputs.  The LSRs that exist have ids 1, 2, ...; a store is a dict      *)
(* {lsr.id: lsr} of at most MaxStore of them; a batch is a list of at most *)
(* MaxBatch entries.                                                       *)
(***************************************************************************)
SeqsUpTo(S, n) == UNION {[1..k -> S] : k \in 0..n}

\* the stores that hold at most MaxStore LSRs of a pool (a sequence of LSRs,
\* the LSR at position i having id i)
StoresOver(pool) ==
    {[i \in ids |-> [pool[i] EXCEPT !.id = i]] :
        ids \in {s \in SUBSET (1..Len(pool)) : Cardinality(s) <= MaxStore}}

ZeroThresholds == [auto_merge |-> 0, merge_with_flag |-> 0, review |-> 0]

ThresholdConfigs ==
    {DefaultThresholds,
     ZeroThresholds,
     [auto_merge |-> ScoreScale, merge_with_flag |-> ScoreScale, review |-> ScoreScale],
     [auto_merge |-> Hundredths(40), merge_with_flag |-> Hundredths(95),
      review |-> Hundredths(20)]}

\* --- the scoring universe: one language, forms near "ab", and the
\* --- definitions, date ranges and sources that move each feature
ab == <<"a", "b">>

en == <<"e", "n">>

ScoreLSR(form, defn, date_start, date_end, sources) ==
    [LSR(0, form, form, en) EXCEPT
        !.definition_primary = defn, !.date_start = date_start,
        !.date_end = date_end, !.source_databases = sources]

ScorePool ==
    <<ScoreLSR(ab, <<"x">>, Some(1400), Some(1500), <<"w">>),
      ScoreLSR(ab, <<"x">>, Some(1400), Some(1500), <<"w">>),
      ScoreLSR(<<"a", "c">>, <<"x", " ", "y">>, None, None, <<>>),
      ScoreLSR(<<"c", "c">>, <<"y">>, Some(1200), Some(1300), <<>>)>>

ScoreEntries ==
    {RawLexicalEntry(src, <<"A", "b">>, <<"E", "n", "g">>, en, defs, date) :
        src \in {"w", "o"},
        defs \in {<<>>, <<<<"X">>>>},
        date \in {None, Some(1450), Some(1560), Some(1650)}}
    \cup {RawLexicalEntry("o", <<"A", "b">>, <<"E", "n", "g">>, en,
                          <<<<"z">>>>, Some(1650))}

Init == \E t \in ThresholdConfigs : Construct(t, SimilarityWeights)

SetLsrStore == \E store \in StoresOver(ScorePool) : DoSetLsrStore(store)

Resolve == \E entry \in ScoreEntries : DoResolve(entry)

Next == SetLsrStore \/ Resolve

Spec == Init /\ [][Next]_vars

(***************************************************************************)
(* Properties of resolve under Spec.                                       *)
(***************************************************************************)
\* the last call was a resolve that returned
Resolved == out.op = "resolve" /\ ~out.raised

\* the candidates of the last resolve that were scored, with their scores
ScoredIds == IF out.op = "resolve" THEN Range(out.order) \cap DOMAIN lsr_store ELSE {}

ScoreOf(id) == weighted_total(features_of(out.entry, lsr_store[id]), weights)

\* every division of the scorer is exact in the units of the model
ExactArithmetic ==
    out.op = "resolve" =>
        \A id \in ScoredIds :
            LET e == strip_diacritics(lower(out.entry.form))
                c == lsr_store[id]
                words == split_words(lower(join_space(out.entry.definitions)))
                             \cup split_words(lower(c.definition_primary))
            IN  /\ FeatureScale % Max2(Max2(Len(e), Len(c.form_normalized)), 1) = 0
                /\ FeatureScale % Max2(Cardinality(words), 1) = 0
                /\ FeatureScale % 100 = 0

\* C1: when at least one candidate was scored, the action is AUTO_MERGE if
\* the best score s >= auto_merge_threshold, else MERGE_WITH_FLAG if
\* s >= merge_with_flag_threshold, else FLAG_FOR_REVIEW if s >= review_threshold,
\* else CREATE_NEW, for every configured thresholds; equality takes the
\* threshold's action.
C1_OrderedThresholds ==
    (Resolved /\ ScoredIds # {}) =>
        LET s == out.result.similarity_score
        IN  /\ s >= auto_merge_threshold => out.result.action = AUTO_MERGE
            /\ (s < auto_merge_threshold /\ s >= merge_with_flag_threshold)
                   => out.result.action = MERGE_WITH_FLAG
            /\ (s < auto_merge_threshold /\ s < merge_with_flag_threshold
                    /\ s >= review_threshold)
                   => out.result.action = FLAG_FOR_REVIEW
            /\ (s < auto_merge_threshold /\ s < merge_with_flag_threshold
                    /\ s < review_threshold)
                   => out.result.action = CREATE_NEW

\* a best score exactly at the default merge_with_flag threshold (0.85), below
\* the auto-merge threshold: MERGE_WITH_FLAG
C1_Witness ==
    /\ Resolved /\ ScoredIds # {}
    /\ merge_with_flag_threshold = DefaultThresholds.merge_with_flag
    /\ auto_merge_threshold = DefaultThresholds.auto_merge
    /\ out.result.similarity_score = merge_with_flag_threshold
    /\ out.result.action = MERGE_WITH_FLAG

\* C8: with the default weights every feature score of every scored
\* candidate lies in [0,1], its weighted total lies in [0,1], and so does
\* the similarity_score resolve returns.
C8_ScoresBounded ==
    Resolved =>
        /\ \A id \in ScoredIds :
               /\ \A k \in FeatureNames :
                      /\ features_of(out.entry, lsr_store[id])[k] >= 0
                      /\ features_of(out.entry, lsr_store[id])[k] <= FeatureScale
               /\ ScoreOf(id) >= 0 /\ ScoreOf(id) <= ScoreScale
        /\ out.result.similarity_score >= 0
        /\ out.result.similarity_score <= ScoreScale
        /\ \A k \in DOMAIN out.result.feature_scores :
               /\ out.result.feature_scores[k] >= 0
               /\ out.result.feature_scores[k] <= FeatureScale

\* a candidate that is floored (the attested year is more than a century
\* off the range) next to one that reaches the upper bound 1.0
C8_Witness ==
    /\ Resolved /\ weights = SimilarityWeights
    /\ out.result.similarity_score = ScoreScale
    /\ \E id \in ScoredIds :
           /\ features_of(out.entry, lsr_store[id])["date_overlap"] = 0
           /\ features_of(out.entry, lsr_store[id])["form_fuzzy"] = 0

\* the best score among the scored candidates, and the first candidate in
\* iteration order that has it
MaxScore == CHOOSE m \in {ScoreOf(id) : id \in ScoredIds} :
                \A id \in ScoredIds : ScoreOf(id) <= m

FirstBest ==
    LET scored == SelectSeq(out.order, LAMBDA id : id \in DOMAIN lsr_store)
        p == CHOOSE i \in 1..Len(scored) :
                 /\ ScoreOf(scored[i]) = MaxScore
                 /\ \A j \in 1..(i - 1) : ScoreOf(scored[j]) < MaxScore
    IN  scored[p]

\* C4: similarity_score is the maximum score of the retrieved candidates;
\* when the action is not CREATE_NEW, existing_id names a candidate with
\* that score, the first one in iteration order among those that tie.
C4_BestCandidate ==
    (Resolved /\ ScoredIds # {}) =>
        /\ out.result.similarity_score = MaxScore
        /\ out.result.action # CREATE_NEW => out.result.existing_id = Some(FirstBest)

\* the actions that name an existing record
MatchActions == {AUTO_MERGE, MERGE_WITH_FLAG, FLAG_FOR_REVIEW}

\* the thresholds are the defaults 0.95 / 0.85 / 0.70
DefaultConfigured ==
    /\ auto_merge_threshold = DefaultThresholds.auto_merge
    /\ merge_with_flag_threshold = DefaultThresholds.merge_with_flag
    /\ review_threshold = DefaultThresholds.review

\* some stored LSR has the entry's normalized form and language code
HasExactForm(entry) ==
    \E id \in DOMAIN lsr_store :
        /\ lsr_store[id].form_normalized = normalize(entry.form)
        /\ lsr_store[id].language_code = entry_language_code(entry)

AllThresholdsOne ==
    /\ auto_merge_threshold = ScoreScale
    /\ merge_with_flag_threshold = ScoreScale
    /\ review_threshold = ScoreScale

C24_FeatureBreakdown ==
    Resolved =>
        /\ ScoredIds # {} =>
               /\ DOMAIN out.result.feature_scores = FeatureNames
               /\ weighted_total(out.result.feature_scores, weights)
                      = out.result.similarity_score
        /\ DOMAIN out.result.feature_scores = {} => Len(out.order) = 0

\* C28: for every threshold configuration, 0.0 included, and every store, an
\* action other than CREATE_NEW comes with an existing_id that names an LSR
\* of the store.
C28_MatchHasId ==
    (Resolved /\ out.result.action # CREATE_NEW) =>
        /\ ~IsNone(out.result.existing_id)
        /\ out.result.existing_id[1] \in DOMAIN lsr_store

(***************************************************************************)
(* SpecBatch: process_batch over a store that can hold a malformed record. *)
(***************************************************************************)
cccc == <<"c", "c", "c", "c">>

BatchPool ==
    <<ScoreLSR(ab, <<"x">>, Some(1400), Some(1500), <<"w">>),
      ScoreLSR(<<"a", "c">>, <<"y">>, None, None, <<>>),
      [ScoreLSR(cccc, <<>>, None, None, <<>>) EXCEPT !.malformed = TRUE]>>

BatchEntries ==
    {RawLexicalEntry("w", <<"A", "b">>, <<"E", "n", "g">>, en, <<<<"X">>>>, None),
     RawLexicalEntry("o", <<"a", "c">>, <<"E", "n", "g">>, en, <<>>, Some(1450)),
     RawLexicalEntry("o", cccc, <<"E", "n", "g">>, en, <<>>, None)}

InitBatch == Construct(DefaultThresholds, SimilarityWeights)

SetLsrStoreBatch == \E store \in StoresOver(BatchPool) : DoSetLsrStore(store)

ResolveBatch == \E entry \in BatchEntries : DoResolve(entry)

ProcessBatch == \E entries \in SeqsUpTo(BatchEntries, MaxBatch) : DoProcessBatch(entries)

NextBatch == SetLsrStoreBatch \/ ResolveBatch \/ ProcessBatch

SpecBatch == InitBatch /\ [][NextBatch]_vars

\* the results the last call returned: one for resolve, a list for process_batch
ReturnedResults ==
    IF Resolved THEN {out.result}
    ELSE IF out.op = "process_batch" THEN Range(out.results)
    ELSE {}

\* C3: every result of resolve or process_batch whose action is CREATE_NEW
\* has existing_id None, also when a candidate was scored below the review
\* threshold.
C3_CreateNewHasNoId ==
    \A r \in ReturnedResults : r.action = CREATE_NEW => r.existing_id = None

\* CREATE_NEW although a candidate was found and scored above 0
C3_Witness ==
    /\ Resolved /\ ScoredIds # {}
    /\ out.result.action = CREATE_NEW
    /\ out.result.similarity_score > 0
    /\ out.result.similarity_score < review_threshold
    /\ out.result.existing_id = None

\* what resolve(entry) alone can give in the current state, as process_batch
\* reports it: the result, or the CREATE_NEW fallback when it raises
AloneResults(entry) ==
    {IF c.call.raised
     THEN [action |-> CREATE_NEW, existing_id |-> None, similarity_score |-> 0,
           feature_scores |-> NoFeatures, issues |-> <<"TypeError">>]
     ELSE c.call.result : c \in resolve_calls(entry)}

\* C5: process_batch never raises and returns one result per entry in input
\* order; result i is what resolve(entries[i]) returns, or a CREATE_NEW
\* fallback (no id, score 0, a non-empty issues list) when it raises, whatever
\* happens to the other entries.
C5_BatchIsolation ==
    out.op = "process_batch" =>
        /\ ~out.raised
        /\ Len(out.results) = Len(out.entries)
        /\ \A i \in 1..Len(out.results) :
               /\ out.results[i] \in AloneResults(out.entries[i])
               /\ out.calls[i].raised =>
                      /\ out.results[i].action = CREATE_NEW
                      /\ out.results[i].existing_id = None
                      /\ out.results[i].similarity_score = 0
                      /\ Len(out.results[i].issues) > 0
               /\ ~out.calls[i].raised => out.results[i] = out.calls[i].result

\* a batch whose middle entry fails while the entries around it match
C5_Witness ==
    /\ out.op = "process_batch" /\ Len(out.entries) >= 3
    /\ \E i \in 2..(Len(out.entries) - 1) :
           /\ out.calls[i].raised
           /\ Len(out.results[i].issues) > 0
           /\ ~out.calls[i - 1].raised /\ out.results[i - 1].action # CREATE_NEW
           /\ ~out.calls[i + 1].raised /\ out.results[i + 1].action # CREATE_NEW

(***************************************************************************)
(* SpecIndex: forms and language codes as arbitrary strings (empty, with   *)
(* a colon, upper case, accented), everything else at its default.         *)
(***************************************************************************)
IndexPool ==
    <<LSR(0, <<"a">>, <<"a">>, <<"b">>),
      LSR(0, <<"a", ":">>, <<"a", ":">>, <<"b">>),
      LSR(0, <<"a">>, <<"a">>, <<":", "b">>),
      LSR(0, <<>>, <<>>, <<"b">>),
      LSR(0, ab, ab, <<>>)>>

\* (language, language_code) of an entry
IndexLanguages ==
    {<<<<"B">>, <<"b">>>>, <<<<"B">>, <<>>>>, <<<<":", "b">>, <<":", "b">>>>,
     <<<<>>, <<>>>>, <<<<"X", "h", "o", "s", "a">>, <<>>>>}

IndexForms == {<<>>, <<"a">>, <<"a_acute">>, <<"A", ":">>, <<"b", "b", "b">>}

IndexEntries ==
    {RawLexicalEntry("w", form, lang[1], lang[2], <<>>, None) :
        form \in IndexForms, lang \in IndexLanguages}

InitIndex == \E t \in {DefaultThresholds, ZeroThresholds} : Construct(t, SimilarityWeights)

SetLsrStoreIndex == \E store \in StoresOver(IndexPool) : DoSetLsrStore(store)

ResolveIndex == \E entry \in IndexEntries : DoResolve(entry)

NextIndex == SetLsrStoreIndex \/ ResolveIndex

SpecIndex == InitIndex /\ [][NextIndex]_vars

\* C2: on an empty store (set empty, or never set) resolve returns without
\* raising CREATE_NEW, existing_id None and similarity_score 0.0, for every
\* entry.
C2_EmptyStoreCreatesNew ==
    (out.op = "resolve" /\ DOMAIN lsr_store = {}) =>
        /\ ~out.raised
        /\ out.result.action = CREATE_NEW
        /\ out.result.existing_id = None
        /\ out.result.similarity_score = 0

\* an entry without a form resolved on the empty store of a resolver whose
\* thresholds are all 0.0
C2_Witness ==
    /\ Resolved /\ DOMAIN lsr_store = {}
    /\ review_threshold = 0 /\ auto_merge_threshold = 0
    /\ out.entry.form = <<>>
    /\ out.result.action = CREATE_NEW

\* the stored LSRs whose language_code is the entry's language code
SameLanguage(entry) ==
    {id \in DOMAIN lsr_store : lsr_store[id].language_code = entry_language_code(entry)}

\* C6: when no stored LSR has the entry's language code, resolve retrieves no
\* candidate and returns CREATE_NEW with existing_id None, for arbitrary form
\* and language-code strings.
C6_CrossLanguageNoMatch ==
    (Resolved /\ SameLanguage(out.entry) = {}) =>
        /\ out.order = <<>>
        /\ out.result.action = CREATE_NEW
        /\ out.result.existing_id = None

\* C7: an entry with an empty form or an empty language resolves, without
\* raising, to CREATE_NEW with similarity_score 0, whatever the store holds.
C7_MissingFormOrLanguage ==
    (out.op = "resolve"
        /\ (out.entry.form = <<>> \/ entry_language_code(out.entry) = <<>>)) =>
        /\ ~out.raised
        /\ out.result.action = CREATE_NEW
        /\ out.result.similarity_score = 0

\* the stored LSRs of the entry's language whose form_normalized is at edit
\* distance 1 from the entry's normalized form
DistanceOne(entry) ==
    {id \in DOMAIN lsr_store :
        /\ lsr_store[id].language_code = entry_language_code(entry)
        /\ levenshtein_distance(normalize(entry.form),
                                lsr_store[id].form_normalized) = 1}

\* C18: when a stored LSR of the entry's language is at edit distance 1 from
\* the entry's normalized form and no exact-form LSR exists, resolve
\* retrieves that LSR as a candidate and the returned feature_scores has
\* "form_fuzzy" with a value above 0.
C18_FuzzyCandidateFound ==
    (Resolved /\ DistanceOne(out.entry) # {} /\ ~HasExactForm(out.entry)) =>
        /\ DistanceOne(out.entry) \subseteq Range(out.order)
        /\ "form_fuzzy" \in DOMAIN out.result.feature_scores
        /\ out.result.feature_scores["form_fuzzy"] > 0

\* the stored LSRs of the entry's language whose form_normalized is within
\* edit distance 2 of the entry's normalized form
WithinTwo(entry) ==
    {id \in DOMAIN lsr_store :
        /\ lsr_store[id].language_code = entry_language_code(entry)
        /\ levenshtein_distance(normalize(entry.form),
                                lsr_store[id].form_normalized) <= 2}

\* C21: for every store and entry, forms and language codes with ":"
\* included, the candidates retrieved are exactly the stored LSRs of the
\* entry's language within edit distance 2 of its normalized form, each once.
C21_CandidatesExact ==
    out.op = "resolve" =>
        /\ Range(out.order) = WithinTwo(out.entry)
        /\ Len(out.order) = Cardinality(WithinTwo(out.entry))

(***************************************************************************)
(* SpecMerge: merge_lsrs / LSR.merge_with on the LSRs of the store.        *)
(***************************************************************************)
MergeLSR(version, date_start, date_end, sources, attestations, defn, alternates) ==
    [LSR(0, ab, ab, en) EXCEPT
        !.version = version, !.date_start = date_start, !.date_end = date_end,
        !.source_databases = sources, !.attestations = attestations,
        !.definition_primary = defn, !.definitions_alternate = alternates]

MergePool ==
    <<MergeLSR(1, Some(1400), Some(1800), <<"w">>,
               <<Attestation(1, Some(1), Some(1500))>>, <<"x">>, <<<<"y">>>>),
      MergeLSR(3, Some(1500), Some(1700), <<"o", "w">>,
               <<Attestation(1, Some(1), Some(1500)), Attestation(2, Some(2), None)>>,
               <<"y">>, <<<<"x">>, <<"z">>>>),
      MergeLSR(1, None, Some(1300), <<>>, <<>>, <<>>, <<>>),
      MergeLSR(1, Some(1350), None, <<>>, <<>>, <<>>, <<>>),
      MergeLSR(2, None, None, <<>>,
               <<Attestation(2, Some(2), None), Attestation(2, Some(2), None)>>,
               <<>>, <<<<"z">>, <<"z">>>>)>>

InitMerge == Construct(DefaultThresholds, SimilarityWeights)

SetLsrStoreMerge == \E store \in StoresOver(MergePool) : DoSetLsrStore(store)

MergeLsrs == \E target \in DOMAIN lsr_store, source \in DOMAIN lsr_store :
                 DoMergeLsrs(target, source)

NextMerge == SetLsrStoreMerge \/ MergeLsrs

SpecMerge == InitMerge /\ [][NextMerge]_vars

\* the last call was merge_lsrs(target, source)
Merged == out.op = "merge_lsrs"

\* C9: every merge_with / merge_lsrs call increases the target's version by
\* exactly 1; after n merges into a target its version is the initial
\* version plus n.
C9_VersionPlusOne ==
    /\ Merged => lsr_store[out.target].version = out.target_before.version + 1
    /\ \A id \in DOMAIN lsr_store :
           lsr_store[id].version = merges[id].version0 + merges[id].n

\* two merges into an LSR that started at version 3, the last one changing
\* none of its contents
C9_Witness ==
    /\ Merged
    /\ merges[out.target] = [n |-> 2, version0 |-> 3]
    /\ lsr_store[out.target].version = 5
    /\ lsr_store[out.target].attestations = out.target_before.attestations
    /\ lsr_store[out.target].date_start = out.target_before.date_start

\* the smaller / larger of two optional years, a missing one giving way
OptMin(a, b) == IF IsNone(a) THEN b ELSE IF IsNone(b) THEN a ELSE Some(Min2(a[1], b[1]))

OptMax(a, b) == IF IsNone(a) THEN b ELSE IF IsNone(b) THEN a ELSE Some(Max2(a[1], b[1]))

\* C10: after merge_with the target's date_start is the minimum of the two
\* date_start values and its date_end the maximum of the two date_end
\* values; a bound missing on one side is taken from the other, a bound
\* missing on both stays None.
C10_DateUnion ==
    Merged =>
        /\ lsr_store[out.target].date_start
               = OptMin(out.target_before.date_start, out.source_before.date_start)
        /\ lsr_store[out.target].date_end
               = OptMax(out.target_before.date_end, out.source_before.date_end)

\* the target had no date_start and takes the source's, while its date_end
\* grows to the source's later one
C10_Witness ==
    /\ Merged
    /\ IsNone(out.target_before.date_start)
    /\ ~IsNone(out.source_before.date_start)
    /\ lsr_store[out.target].date_start = out.source_before.date_start
    /\ ~IsNone(out.target_before.date_end) /\ ~IsNone(out.source_before.date_end)
    /\ out.source_before.date_end[1] > out.target_before.date_end[1]
    /\ lsr_store[out.target].date_end = out.source_before.date_end

\* the ids of a list of attestations
AttestationIds(atts) == {atts[i].id : i \in 1..Len(atts)}

\* no two positions of the list hold the same attestation id
DistinctIds(atts) ==
    \A i, j \in 1..Len(atts) : atts[i].id = atts[j].id => i = j

\* how often x occurs in the list
CountIn(list, x) == Cardinality({i \in 1..Len(list) : list[i] = x})

\* what the merge appended to a list that was `before`
Appended(before, after) == SubSeq(after, Len(before) + 1, Len(after))

\* C12: after merge_with the target's attestations are the union by id: the
\* target's own are kept in place, an attestation of other whose id the
\* target already had is not added, every other attestation of other is
\* added, and distinct ids within each input give distinct ids in the result.
C12_AttestationUnion ==
    Merged =>
        LET before == out.target_before.attestations
            other == out.source_before.attestations
            after == lsr_store[out.target].attestations
        IN  /\ Len(after) >= Len(before)
            /\ SubSeq(after, 1, Len(before)) = before
            /\ Range(Appended(before, after)) \subseteq Range(other)
            /\ \A att \in Range(other) :
                   CountIn(Appended(before, after), att)
                       = IF att.id \in AttestationIds(before) THEN 0
                         ELSE CountIn(other, att)
            /\ (DistinctIds(before) /\ DistinctIds(other)) => DistinctIds(after)

\* the source held one attestation the target already had (by id) and one
\* it had not: only the second was appended
C12_Witness ==
    /\ Merged
    /\ out.target # out.source
    /\ \E att \in Range(out.source_before.attestations) :
           att.id \in AttestationIds(out.target_before.attestations)
    /\ \E att \in Range(out.source_before.attestations) :
           att.id \notin AttestationIds(out.target_before.attestations)
    /\ DistinctIds(out.source_before.attestations)
    /\ Len(lsr_store[out.target].attestations)
           = Len(out.target_before.attestations) + 1

RECURSIVE AppendUnseen(_, _, _)
\* list followed by the values of more it does not hold yet (nor `skip`),
\* each considered in order against the list as it then is
AppendUnseen(list, more, skip) ==
    IF Len(more) = 0 THEN list
    ELSE AppendUnseen(IF Head(more) \in Range(list) \cup skip
                      THEN list ELSE Append(list, Head(more)),
                      Tail(more), skip)

\* C13: after merge_with source_databases holds every tag of either list
\* exactly once: the target's tags first, in their order, then the tags new
\* from other in order of first appearance.
C13_SourceOrder ==
    Merged =>
        lsr_store[out.target].source_databases
            = AppendUnseen(AppendUnseen(<<>>, out.target_before.source_databases, {}),
                           out.source_before.source_databases, {})

\* C14: merge_with appends other's alternates in order, skipping a value that
\* equals the target's primary definition or is already among the target's
\* alternates when it is considered (a value repeated inside other is
\* appended once), and keeps the target's alternates in place.
C14_AlternatesAppendedOnce ==
    Merged =>
        lsr_store[out.target].definitions_alternate
            = AppendUnseen(out.target_before.definitions_alternate,
                           out.source_before.definitions_alternate,
                           {out.target_before.definition_primary})

\* C15: a merge with target distinct from source leaves the target's id,
\* forms, language code and primary definition as they were, and every
\* field of the source as it was.
C15_MergeFrame ==
    (Merged /\ out.target # out.source) =>
        /\ lsr_store[out.target].id = out.target_before.id
        /\ lsr_store[out.target].form_orthographic = out.target_before.form_orthographic
        /\ lsr_store[out.target].form_normalized = out.target_before.form_normalized
        /\ lsr_store[out.target].language_code = out.target_before.language_code
        /\ lsr_store[out.target].definition_primary = out.target_before.definition_primary
        /\ lsr_store[out.source] = out.source_before

\* the source had another primary definition and attestations the target
\* took over
C15_Witness ==
    /\ Merged
    /\ out.target # out.source
    /\ out.source_before.definition_primary # out.target_before.definition_primary
    /\ Len(lsr_store[out.target].attestations) > Len(out.target_before.attestations)
    /\ lsr_store[out.target].version = out.target_before.version + 1

(***************************************************************************)
(* SpecLsr: the life of LSR records: construction (directly or by          *)
(* convert_entry_to_lsr), add_attestation and merge_with in any order.     *)
(***************************************************************************)
\* entries with no year, year 0, a BCE year and a CE year
LsrEntries ==
    {RawLexicalEntry("w", ab, <<"E", "n", "g">>, code, defs, date) :
        code \in {en, <<>>},
        defs \in {<<<<"x">>, <<"y">>>>, <<<<"x">>, <<"x">>>>},
        date \in {None, Some(0), Some(0 - 50), Some(1400)}}

\* LSR(form_orthographic="ab", language_code="en", date_start=..., date_end=...)
DatedLSR(date_start, date_end) ==
    [LSR(0, ab, <<>>, en) EXCEPT !.date_start = date_start, !.date_end = date_end]

\* the LSRs that were constructed: directly with one or both bounds (those
\* validate_date_range rejects do not exist) or converted from an entry
LsrPool ==
    SelectSeq(<<DatedLSR(None, Some(1300)),
                DatedLSR(Some(1350), None),
                DatedLSR(Some(2000), Some(1900)),
                convert_entry_to_lsr(
                    RawLexicalEntry("w", ab, <<"E", "n", "g">>, en, <<>>, Some(1400)), 0)>>,
              LAMBDA lsr : validate_date_range(lsr.date_start, lsr.date_end))

\* Attestation(id=3, text_date=...) objects, dated or not
NewAttestations == {Attestation(3, None, d) : d \in {None, Some(1200), Some(1500)}}

InitLsr == Construct(DefaultThresholds, SimilarityWeights)

SetLsrStoreLsr == \E store \in StoresOver(LsrPool) : DoSetLsrStore(store)

ConvertEntryToLsr == \E entry \in LsrEntries : DoConvertEntryToLsr(entry)

AddAttestation ==
    \E target \in DOMAIN lsr_store, attestation \in NewAttestations :
        /\ Len(lsr_store[target].attestations) < MaxAttestations
        /\ DoAddAttestation(target, attestation)

MergeLsrsLsr == \E target \in DOMAIN lsr_store, source \in DOMAIN lsr_store :
                    DoMergeLsrs(target, source)

NextLsr == SetLsrStoreLsr \/ ConvertEntryToLsr \/ AddAttestation \/ MergeLsrsLsr

SpecLsr == InitLsr /\ [][NextLsr]_vars

\* the date range of an LSR is ordered when both bounds are set
DateRangeOrdered(lsr) ==
    (~IsNone(lsr.date_start) /\ ~IsNone(lsr.date_end))
        => lsr.date_end[1] >= lsr.date_start[1]

\* C11: every LSR reachable from validly constructed ones by add_attestation,
\* merge_with and convert_entry_to_lsr has date_end >= date_start whenever
\* both bounds are set, also when the merged records had one bound each.
C11_DateRangeOrdered ==
    /\ \A id \in DOMAIN lsr_store : DateRangeOrdered(lsr_store[id])
    /\ out.op = "convert_entry_to_lsr" => DateRangeOrdered(out.lsr)

\* the last call was convert_entry_to_lsr(entry)
Converted == out.op = "convert_entry_to_lsr"

\* C16: convert_entry_to_lsr seeds date_start and date_end with the entry's
\* date_attested whenever it is present (any signed year, 0 included), and
\* leaves both None when it is absent.
C16_DateSeedsBothBounds ==
    Converted =>
        /\ out.lsr.date_start = out.entry.date_attested
        /\ out.lsr.date_end = out.entry.date_attested

\* C27: after any sequence of add_attestation and merge_with calls every
\* attestation in an LSR's list has lsr_id equal to the id of the LSR that
\* holds it, those taken over from a merged source included.
C27_AttestationsLinked ==
    \A id \in DOMAIN lsr_store :
        \A i \in 1..Len(lsr_store[id].attestations) :
            lsr_store[id].attestations[i].lsr_id = Some(lsr_store[id].id)

\* no alternate definition of the LSR equals its primary definition
NoAlternateIsPrimary(lsr) ==
    lsr.definition_primary \notin Range(lsr.definitions_alternate)

\* C30: an LSR produced by convert_entry_to_lsr, and the same LSR after any
\* merges into it, has no alternate definition equal to its primary one.
C30_AlternatesExcludePrimary ==
    /\ Converted => NoAlternateIsPrimary(out.lsr)
    /\ \A id \in DOMAIN lsr_store : NoAlternateIsPrimary(lsr_store[id])

(***************************************************************************)
(* SpecLevenshtein: levenshtein_distance on every pair of strings of at    *)
(* most MaxLen code points, ASCII or not.                                  *)
(***************************************************************************)
LevenshteinStrings == SeqsUpTo({"a", "a_acute"}, MaxLen)

InitLevenshtein == Construct(DefaultThresholds, SimilarityWeights)

Levenshtein == \E s1 \in LevenshteinStrings, s2 \in LevenshteinStrings :
                   DoLevenshteinDistance(s1, s2)

NextLevenshtein == Levenshtein

SpecLevenshtein == InitLevenshtein /\ [][NextLevenshtein]_vars

RECURSIVE EditDistance(_, _)
\* the unit-cost edit distance by its defining recursion: delete, insert or
\* substitute the first code point
EditDistance(a, b) ==
    IF Len(a) = 0 THEN Len(b)
    ELSE IF Len(b) = 0 THEN Len(a)
    ELSE Min2(Min2(EditDistance(Tail(a), b) + 1, EditDistance(a, Tail(b)) + 1),
              EditDistance(Tail(a), Tail(b)) + (IF Head(a) # Head(b) THEN 1 ELSE 0))

\* C20: levenshtein_distance(a, b) is the unit-cost edit distance; it is
\* symmetric, distance(a, "") is len(a), distance(a, a) is 0, and empty
\* inputs give a result.
C20_LevenshteinIsEditDistance ==
    out.op = "levenshtein_distance" =>
        /\ out.distance = EditDistance(out.s1, out.s2)
        /\ out.distance = levenshtein_distance(out.s2, out.s1)
        /\ Len(out.s2) = 0 => out.distance = Len(out.s1)
        /\ Len(out.s1) = 0 => out.distance = Len(out.s2)
        /\ out.s1 = out.s2 => out.distance = 0

\* a shorter first argument (the call that swaps) two edits away from the
\* second, one of them a substitution
C20_Witness ==
    /\ out.op = "levenshtein_distance"
    /\ 0 < Len(out.s1) /\ Len(out.s1) + 1 = Len(out.s2)
    /\ out.distance = 2

(***************************************************************************)
(* SpecScore: _calculate_similarity on entries and candidates whose dates  *)
(* (BCE, year 0, CE, missing) and definition texts (missing, blank, one or *)
(* more words) cover every branch of the date and semantic features.       *)
(***************************************************************************)
ScoreCaseEntries ==
    {RawLexicalEntry("w", ab, <<"E", "n", "g">>, en, defs, date) :
        defs \in {<<>>, <<<<" ">>>>, <<<<"X">>>>, <<<<"x">>, <<"y">>>>},
        date \in {None, Some(0), Some(0 - 40), Some(130)}}

ScoreCaseCandidates ==
    {ScoreLSR(ab, defn, dates[1], dates[2], <<>>) :
        defn \in {<<>>, <<" ">>, <<"x">>, <<"z">>},
        dates \in {<<None, None>>, <<Some(0), Some(100)>>,
                   <<Some(0 - 100), Some(0)>>, <<Some(0 - 20), None>>,
                   <<Some(10), Some(100)>>}}

InitScore == Construct(DefaultThresholds, SimilarityWeights)

CalculateSimilarity ==
    \E entry \in ScoreCaseEntries, candidate \in ScoreCaseCandidates :
        DoCalculateSimilarity(entry, candidate)

NextScore == CalculateSimilarity

SpecScore == InitScore /\ [][NextScore]_vars

\* the last call was _calculate_similarity and returned
Scored == out.op = "calculate_similarity" /\ ~out.call.raised

\* C22: with date_attested and both bounds of the candidate set (any signed
\* year, 0 included) date_overlap is 1.0 inside the range and otherwise
\* max(0, 1 - d/100) for the distance d to the nearest bound; it is 0.5
\* when the entry has no date_attested or the candidate lacks a bound.
C22_DateOverlap ==
    Scored =>
        LET d == out.entry.date_attested
            s == out.candidate.date_start
            e == out.candidate.date_end
            nearest == Min2(Abs(d[1] - s[1]), Abs(d[1] - e[1]))
        IN  out.call.features["date_overlap"] =
                IF IsNone(d) \/ IsNone(s) \/ IsNone(e) THEN FeatureScale \div 2
                ELSE IF s[1] <= d[1] /\ d[1] <= e[1] THEN FeatureScale
                ELSE Max2(0, FeatureScale - (FeatureScale * nearest) \div 100)

\* C23: semantic is 0.5 when either side has no definition text (no
\* definitions, or only empty or blank ones), 0.0 when both have words and
\* share none, and otherwise the Jaccard overlap of the two word sets.
C23_SemanticNeutralWithoutText ==
    Scored =>
        LET A == split_words(lower(join_space(out.entry.definitions)))
            B == split_words(lower(out.candidate.definition_primary))
        IN  out.call.features["semantic"] =
                IF A = {} \/ B = {} THEN FeatureScale \div 2
                ELSE (FeatureScale * Cardinality(A \cap B)) \div Cardinality(A \cup B)

(***************************************************************************)
(* SpecSession: a resolver in use: set_lsr_store, resolve, process_batch   *)
(* and merge_lsrs in any order.                                            *)
(***************************************************************************)
\* two records under one index key and one under another
SessionPool ==
    <<LSR(0, ab, ab, en), LSR(0, ab, ab, en), LSR(0, cccc, cccc, en)>>

\* an entry with the form of the first two records
SessionEntries ==
    {RawLexicalEntry("w", <<"A", "b">>, <<"E", "n", "g">>, en, <<>>, None)}

InitSession == Construct(DefaultThresholds, SimilarityWeights)

SetLsrStoreSession == \E store \in StoresOver(SessionPool) : DoSetLsrStore(store)

ResolveSession == \E entry \in SessionEntries : DoResolve(entry)

ProcessBatchSession ==
    \E entries \in SeqsUpTo(SessionEntries, MaxBatch) : DoProcessBatch(entries)

MergeLsrsSession ==
    \E target \in DOMAIN lsr_store, source \in DOMAIN lsr_store :
        DoMergeLsrs(target, source)

NextSession ==
    SetLsrStoreSession \/ ResolveSession \/ ProcessBatchSession \/ MergeLsrsSession

SpecSession == InitSession /\ [][NextSession]_vars

\* C25: resolve and process_batch are read-only: a step of either leaves
\* the store (key set and every field of every LSR), the form index, the
\* thresholds and the weights unchanged, whatever action is returned.
C25_ResolveReadOnly ==
    [][out'.op \in {"resolve", "process_batch"} =>
          UNCHANGED <<lsr_store, form_index, resolver_config>>]_vars

\* a resolve that returned FLAG_FOR_REVIEW for a record still at version 1
C25_Witness ==
    /\ out.op = "resolve" /\ ~out.raised
    /\ out.result.action = FLAG_FOR_REVIEW
    /\ ~IsNone(out.result.existing_id)
    /\ lsr_store[out.result.existing_id[1]].version = 1

\* the ids of the stored LSRs whose index key is k
IdsWithKey(k) ==
    {id \in DOMAIN lsr_store :
        lsr_store[id].form_normalized \o <<":">> \o lsr_store[id].language_code = k}

\* C26: after any sequence of set_lsr_store, resolve, process_batch and
\* merge_lsrs the form index maps each key to exactly the ids of the LSRs of
\* the current store with that key, each once, and holds no other key or id.
C26_IndexMatchesStore ==
    /\ \A id \in DOMAIN lsr_store :
           lsr_store[id].form_normalized \o <<":">> \o lsr_store[id].language_code
               \in DOMAIN form_index
    /\ \A k \in DOMAIN form_index :
           /\ IdsWithKey(k) # {}
           /\ Range(form_index[k]) = IdsWithKey(k)
           /\ Len(form_index[k]) = Cardinality(IdsWithKey(k))

\* a second store was set and a record of it merged: one key holds the two
\* ids of the current store, and the store set before had another key
C26_Witness ==
    /\ out.op = "merge_lsrs"
    /\ now = 2
    /\ \E k \in DOMAIN form_index : Len(form_index[k]) = 2
    /\ Cardinality(DOMAIN form_index) = 1

(***************************************************************************)
(* SpecIngest: entries are converted with convert_entry_to_lsr, the        *)
(* records are put in the store, and the same entries are resolved again   *)
(* under the default thresholds and weights.                               *)
(***************************************************************************)
\* entries "ab"/Eng/en of source "w": without definitions, with one blank
\* definition, or with two definitions; undated, of year 0, or of 1400
IngestEntryList ==
    LET defs == <<<<>>, <<<<" ">>>>, <<<<"x">>, <<"y">>>>>>
        dates == <<None, Some(0), Some(1400)>>
    IN  [i \in 1..(Len(defs) * Len(dates)) |->
            RawLexicalEntry("w", ab, <<"E", "n", "g">>, en,
                            defs[((i - 1) \div Len(dates)) + 1],
                            dates[((i - 1) % Len(dates)) + 1])]

IngestEntries == Range(IngestEntryList)

\* the records convert_entry_to_lsr makes of the entries
IngestPool ==
    [i \in DOMAIN IngestEntryList |-> convert_entry_to_lsr(IngestEntryList[i], i)]

InitIngest == Construct(DefaultThresholds, SimilarityWeights)

SetLsrStoreIngest == \E store \in StoresOver(IngestPool) : DoSetLsrStore(store)

ResolveIngest == \E entry \in IngestEntries : DoResolve(entry)

NextIngest == SetLsrStoreIngest \/ ResolveIngest

SpecIngest == InitIngest /\ [][NextIngest]_vars

\* the record converted from the entry just resolved is in the store
OwnRecordStored ==
    \E id \in DOMAIN lsr_store : lsr_store[id] = convert_entry_to_lsr(out.entry, id)

\* C29: under the default weights and thresholds, when the record
\* convert_entry_to_lsr(e) is in the store that was set, resolve(e) returns
\* an action other than CREATE_NEW and existing_id names an LSR whose
\* normalized form and language code are those of e.
C29_ReingestFindsRecord ==
    (Resolved /\ OwnRecordStored) =>
        /\ out.result.action # CREATE_NEW
        /\ ~IsNone(out.result.existing_id)
        /\ out.result.existing_id[1] \in DOMAIN lsr_store
        /\ lsr_store[out.result.existing_id[1]].form_normalized =
               strip_diacritics(lower(out.entry.form))
        /\ lsr_store[out.result.existing_id[1]].language_code =
               entry_language_code(out.entry)

====
